---- MODULE Spec2Model ----
(***************************************************************************)
(* Controlled-form components of react-hooks-forms.                        *)
(*                                                                         *)
(*   Spec        the Form of src/components/Form.js:22-48 (bounded number  *)
(*               field)                                                    *)
(*   SpecParent  Parent (README.md:737-766) rendering that Form            *)
(*   SpecForm    the versions of Form the lesson builds (README.md and     *)
(*               unnamed/part_000); a run mounts one of them               *)
(*                                                                         *)
(* Objects live in a heap and are held by reference, so that handing an    *)
(* object to a sink and changing the state afterwards can alias.           *)
(*                                                                         *)
(* Every handler is one action.  React re-renders a component after each   *)
(* discrete DOM event before it dispatches the next one, so the values a   *)
(* handler closes over are the current state values and the state setters  *)
(* it calls take effect when the handler returns.                          *)
(***************************************************************************)
EXTENDS Integers, Sequences, FiniteSets, TLC

VARIABLES
    number,           \* Form.js:24      useState(0)
    isInvalidNumber,  \* Form.js:25      useState(null)
    firstName,        \* useState of the mounted component (README.md:739, 213)
    lastName,         \* useState of the mounted component (README.md:740, 214)
    lastAccepted,     \* history: parsed value of the most recent input in [0,5]
    wasInvalid,       \* history: a message was shown when the last number event came
    lastOutcome,      \* history: whether the last number event's text was in [0,5]
    mounted,          \* the component that is mounted
    heap,             \* the objects created so far; a reference is an index
    formData,         \* README.md:677   useState({...}): a reference, 0 if none
    submittedData,    \* README.md:215   useState([]): an array of references
    newsLetter,       \* part_000:6      useState(false)
    delivered,        \* the calls of the sink so far, with the state at the call
    lastValue,        \* history: per key, the value of its most recent change
    effects,          \* the statements the handler that ran last executed
    event             \* the event object handed to the handler that ran last

numberVars == <<number, isInvalidNumber, lastAccepted, wasInvalid, lastOutcome>>

nameVars == <<firstName, lastName>>

formVars == <<mounted, heap, formData, submittedData, newsLetter, delivered,
              lastValue, effects>>

vars == <<numberVars, nameVars, formVars, event>>

-----------------------------------------------------------------------------
(* Bounds of the model *)

\* longest text of a number-change event
MaxLen == 2

\* longest text of a number-change event when Parent is modelled with Form
MaxLenParent == 1

\* most objects a run creates
MaxObjects == 3

\* most submit events of a run
MaxSubmits == 2

-----------------------------------------------------------------------------
(* Inputs *)

\* characters a number-change text is made of: digits, signs, white space
\* and the letter of the hex prefix (a non-digit everywhere else)
Alphabet == {"0", "3", "5", "9", "-", "+", " ", "x"}

\* e.target.value of the number input: any text over Alphabet
RawInputs == UNION {[1..n -> Alphabet] : n \in 0..MaxLen}

ParentRawInputs == UNION {[1..n -> Alphabet] : n \in 0..MaxLenParent}

\* e.target.value of a text input
TextValues == {"", "John", "Henry"}

-----------------------------------------------------------------------------
(* JavaScript numbers: the integers and NaN *)

NaN == [isNaN |-> TRUE, val |-> 0]

Num(n) == [isNaN |-> FALSE, val |-> n]

\* a >= b and a <= b of JavaScript: false when an operand is NaN
JsGe(a, b) == ~a.isNaN /\ ~b.isNaN /\ a.val >= b.val

JsLe(a, b) == ~a.isNaN /\ ~b.isNaN /\ a.val <= b.val

-----------------------------------------------------------------------------
(* parseInt(string) with no radix argument, as Form.js:28 calls it *)

\* the digits of radix 16 in order of value; the first 10 are the decimal ones
DigitChars == <<"0", "1", "2", "3", "4", "5", "6", "7", "8", "9",
                "a", "b", "c", "d", "e", "f">>

IsDigit(c, R) == \E i \in 1..R : DigitChars[i] = c

DigitValue(c) == (CHOOSE i \in 1..Len(DigitChars) : DigitChars[i] = c) - 1

IsWhiteSpace(c) == c = " "

Drop(s, k) == SubSeq(s, k + 1, Len(s))

RECURSIVE TrimStart(_)
\* leading white space is skipped
TrimStart(s) ==
    IF s # <<>> /\ IsWhiteSpace(Head(s)) THEN TrimStart(Tail(s)) ELSE s

\* -1 when the trimmed text starts with "-", else 1
SignOf(s) == IF s # <<>> /\ Head(s) = "-" THEN -1 ELSE 1

\* one leading "+" or "-" is removed
StripSign(s) == IF s # <<>> /\ Head(s) \in {"+", "-"} THEN Tail(s) ELSE s

HasHexPrefix(s) == Len(s) >= 2 /\ s[1] = "0" /\ s[2] = "x"

\* radix 10, or 16 after a "0x" prefix
RadixOf(s) == IF HasHexPrefix(s) THEN 16 ELSE 10

StripPrefix(s) == IF HasHexPrefix(s) THEN Drop(s, 2) ELSE s

RECURSIVE DigitPrefix(_, _)
\* the longest prefix of s made of radix-R digits
DigitPrefix(s, R) ==
    IF s # <<>> /\ IsDigit(Head(s), R)
    THEN <<Head(s)>> \o DigitPrefix(Tail(s), R)
    ELSE <<>>

RECURSIVE MathInt(_, _)
\* the integer the radix-R digits z denote
MathInt(z, R) ==
    IF z = <<>> THEN 0
    ELSE MathInt(SubSeq(z, 1, Len(z) - 1), R) * R + DigitValue(z[Len(z)])

\* -0 and +0 are one number here: they compare equal and both print as "0"
parseInt(s) ==
    LET t == TrimStart(s)
        sign == SignOf(t)
        u == StripSign(t)
        R == RadixOf(u)
        z == DigitPrefix(StripPrefix(u), R)
    IN  IF z = <<>> THEN NaN ELSE Num(sign * MathInt(z, R))

-----------------------------------------------------------------------------
(* `${newNumber} is not a valid number!` *)

RECURSIVE NatToString(_)
NatToString(n) ==
    IF n < 10 THEN <<DigitChars[n + 1]>>
    ELSE NatToString(n \div 10) \o <<DigitChars[(n % 10) + 1]>>

\* ToString of a JavaScript number that is an integer or NaN
NumberToString(x) ==
    IF x.isNaN THEN <<"N", "a", "N">>
    ELSE IF x.val < 0 THEN <<"-">> \o NatToString(-x.val)
    ELSE NatToString(x.val)

MessageSuffix ==
    <<" ", "i", "s", " ", "n", "o", "t", " ", "a", " ",
      "v", "a", "l", "i", "d", " ", "n", "u", "m", "b", "e", "r", "!">>

\* mutant: the message shows the stored number, not the rejected one
InvalidMessage_ShowsState(x) == NumberToString(number) \o MessageSuffix

InvalidMessage(x) == NumberToString(x) \o MessageSuffix

\* the values of isInvalidNumber: null or a string
Null == [isNull |-> TRUE, text |-> <<>>]

Str(t) == [isNull |-> FALSE, text |-> t]

-----------------------------------------------------------------------------
(* Form (Form.js:22-48) *)

\* lowest and highest number the field takes
MinNumber == 0

MaxNumber == 5

\* mutant: both comparisons strict
IsValidNumber_Strict(newNumber) ==
    /\ ~newNumber.isNaN
    /\ newNumber.val > MinNumber
    /\ newNumber.val < MaxNumber

\* mutant: the test is written as the negation of "out of range", which
\* NaN passes because both of its comparisons are false
IsValidNumber_NotOutOfRange(newNumber) ==
    ~(\/ (~newNumber.isNaN /\ newNumber.val < MinNumber)
      \/ (~newNumber.isNaN /\ newNumber.val > MaxNumber))

\* mutant: the upper limit is not tested
IsValidNumber_NoUpper(newNumber) == JsGe(newNumber, Num(MinNumber))

\* the condition of the if statement
IsValidNumber(newNumber) ==
    JsGe(newNumber, Num(MinNumber)) /\ JsLe(newNumber, Num(MaxNumber))

\* the history variables, as every version of the handler keeps them
NumberHistory(newNumber) ==
    /\ lastAccepted' =
          IF ~newNumber.isNaN /\ newNumber.val \in MinNumber..MaxNumber
          THEN newNumber.val ELSE lastAccepted
    /\ wasInvalid' = (isInvalidNumber # Null)
    /\ lastOutcome' =
          IF ~newNumber.isNaN /\ newNumber.val \in MinNumber..MaxNumber
          THEN "Accepted" ELSE "Rejected"

\* mutant: setNumber is called before the test, whatever the number
handleNumberChange_SetsFirst(value) ==
    LET newNumber == parseInt(value)
    IN  /\ event' = [handler |-> "handleNumberChange", value |-> value,
                     defaultPrevented |-> FALSE]
        /\ number' = newNumber
        /\ IF IsValidNumber(newNumber)
           THEN isInvalidNumber' = Null
           ELSE isInvalidNumber' = Str(InvalidMessage(newNumber))
        /\ NumberHistory(newNumber)
        /\ UNCHANGED <<nameVars, formVars>>

\* mutant: the message is not cleared when a number is accepted
handleNumberChange_KeepsMessage(value) ==
    LET newNumber == parseInt(value)
    IN  /\ event' = [handler |-> "handleNumberChange", value |-> value,
                     defaultPrevented |-> FALSE]
        /\ IF IsValidNumber(newNumber)
           THEN /\ number' = newNumber
                /\ UNCHANGED isInvalidNumber
           ELSE /\ isInvalidNumber' = Str(InvalidMessage(newNumber))
                /\ UNCHANGED number
        /\ NumberHistory(newNumber)
        /\ UNCHANGED <<nameVars, formVars>>

handleNumberChange(value) ==
    LET newNumber == parseInt(value)
    IN  /\ event' = [handler |-> "handleNumberChange", value |-> value,
                     defaultPrevented |-> FALSE]
        /\ IF IsValidNumber(newNumber)
           THEN /\ number' = newNumber
                /\ isInvalidNumber' = Null
           ELSE /\ isInvalidNumber' = Str(InvalidMessage(newNumber))
                /\ UNCHANGED number
        /\ NumberHistory(newNumber)
        /\ UNCHANGED <<nameVars, formVars>>

-----------------------------------------------------------------------------
(* Parent (README.md:737-766) *)

Parent_handleFirstNameChange(value) ==
    /\ event' = [handler |-> "handleFirstNameChange", value |-> value,
                 defaultPrevented |-> TRUE]
    /\ firstName' = value
    /\ UNCHANGED <<lastName, numberVars, formVars>>

Parent_handleLastNameChange(value) ==
    /\ event' = [handler |-> "handleLastNameChange", value |-> value,
                 defaultPrevented |-> TRUE]
    /\ lastName' = value
    /\ UNCHANGED <<firstName, numberVars, formVars>>

\* the props Parent hands to Form (README.md:756-761)
Parent_FormProps == [firstName |-> firstName, lastName |-> lastName]

\* the props Parent hands to DisplayData (README.md:762)
Parent_DisplayDataProps == [firstName |-> firstName, lastName |-> lastName]

\* mutant: the second text input is given the first name too
Form_inputValues_FirstTwice(props) ==
    [first |-> props.firstName, last |-> props.firstName, number |-> number]

\* the value attributes of Form's three inputs (Form.js:40-42)
Form_inputValues(props) ==
    [first |-> props.firstName, last |-> props.lastName, number |-> number]

\* the texts of DisplayData's two headings (README.md:441-448)
DisplayData(props) == <<props.firstName, props.lastName>>

\* what Parent's render shows (README.md:754-764)
Parent_render ==
    [form |-> Form_inputValues(Parent_FormProps),
     display |-> DisplayData(Parent_DisplayDataProps)]

-----------------------------------------------------------------------------

NoEvent == [handler |-> "none", value |-> "", defaultPrevented |-> FALSE]

\* JavaScript strings and booleans as they are stored in objects
StrVal(s) == [type |-> "string", str |-> s, bool |-> FALSE]

BoolVal(b) == [type |-> "boolean", str |-> "", bool |-> b]

InitNumber ==
    /\ number = Num(0)
    /\ isInvalidNumber = Null
    /\ lastAccepted = 0
    /\ wasInvalid = FALSE
    /\ lastOutcome = "none"

Init ==
    /\ InitNumber
    /\ mounted = "Parent"
    /\ firstName = "John"
    /\ lastName = "Henry"
    /\ heap = <<>>
    /\ formData = 0
    /\ submittedData = <<>>
    /\ newsLetter = BoolVal(FALSE)
    /\ delivered = <<>>
    /\ lastValue = <<>>
    /\ effects = <<>>
    /\ event = NoEvent

\* Form's number field on its own: the props firstName and lastName stay
Next ==
    \E value \in RawInputs : handleNumberChange(value)

Spec == Init /\ [][Next]_vars

\* Parent with the Form it renders
NextParent ==
    \/ \E value \in ParentRawInputs : handleNumberChange(value)
    \/ \E value \in TextValues : Parent_handleFirstNameChange(value)
    \/ \E value \in TextValues : Parent_handleLastNameChange(value)

SpecParent == Init /\ [][NextParent]_vars

-----------------------------------------------------------------------------
(* The versions of Form                                                    *)
(*   "props"         README.md:107-131 with the handleSubmit of 169-175    *)
(*   "submissions"   README.md:212-255                                     *)
(*   "newsletter"    unnamed/part_000:3-28                                 *)
(*   "uncontrolled"  README.md:311-325                                     *)
(*   "object"        README.md:338-343 with the handleChange of 644-653    *)
(*   "final"         README.md:676-727                                     *)

FormVersions ==
    {"props", "submissions", "newsletter", "uncontrolled", "object", "final"}

SeparateState == {"props", "submissions", "newsletter"}

ObjectState == {"object", "final"}

\* event.target of a change event: the input element
TextTarget(name, value) ==
    [name |-> name, type |-> "text", value |-> value, checked |-> FALSE]

\* a checkbox without a value attribute has the value "on"
CheckboxTarget(name, checked) ==
    [name |-> name, type |-> "checkbox", value |-> "on", checked |-> checked]

\* event.target of a submit event: the form element
FormTarget == [name |-> "", type |-> "form", value |-> "", checked |-> FALSE]

\* the inputs without a name attribute (README.md:123-124, part_000:22-24)
FirstNameInputs == {TextTarget("", v) : v \in TextValues}

LastNameInputs == {TextTarget("", v) : v \in TextValues}

NewsLetterInputs == {CheckboxTarget("", b) : b \in BOOLEAN}

\* the named inputs of README.md:626-637
ObjectInputs ==
    {TextTarget(n, v) : n \in {"firstName", "lastName"}, v \in TextValues}

\* the named inputs of README.md:705-722
FinalInputs ==
    ObjectInputs \cup {CheckboxTarget("admin", b) : b \in BOOLEAN}

\* event.target of the uncontrolled form: its inputs by name
UncontrolledForms ==
    {[firstName |-> [value |-> f], lastName |-> [value |-> l]] :
        f \in TextValues, l \in TextValues}

\* what the input shows: its checked state if a checkbox, else its text
InputContent(target) ==
    IF target.type = "checkbox"
    THEN BoolVal(target.checked) ELSE StrVal(target.value)

ChangeEvent(handler, line, target) ==
    [handler |-> handler, line |-> line, target |-> target,
     defaultPrevented |-> FALSE]

\* { ...obj, [name]: value }
SpreadWith(obj, name, value) ==
    [k \in (DOMAIN obj) \cup {name} |-> IF k = name THEN value ELSE obj[k]]

\* the reference of the next object created
NewRef == Len(heap) + 1

-----------------------------------------------------------------------------
(* Change handlers *)

\* README.md:113-115, 217-219 and part_000:7-9
handleFirstNameChange(target) ==
    /\ mounted \in SeparateState
    /\ event' = ChangeEvent("handleFirstNameChange", 113, target)
    /\ firstName' = target.value
    /\ effects' = <<"setFirstName">>
    /\ UNCHANGED <<lastName, numberVars, mounted, heap, formData,
                   submittedData, newsLetter, delivered, lastValue>>

\* README.md:117-119, 221-223 and part_000:10-12
handleLastNameChange(target) ==
    /\ mounted \in SeparateState
    /\ event' = ChangeEvent("handleLastNameChange", 117, target)
    /\ lastName' = target.value
    /\ effects' = <<"setLastName">>
    /\ UNCHANGED <<firstName, numberVars, mounted, heap, formData,
                   submittedData, newsLetter, delivered, lastValue>>

\* part_000:13-16
handleNewsLetterChange(target) ==
    /\ mounted = "newsletter"
    /\ event' = ChangeEvent("handleNewsLetterChange", 13, target)
    /\ newsLetter' = BoolVal(target.checked)
    /\ effects' = <<"setNewsLetter">>
    /\ UNCHANGED <<nameVars, numberVars, mounted, heap, formData,
                   submittedData, delivered, lastValue>>

\* setFormData(obj) with obj a new object
SetNewFormData(obj) ==
    /\ heap' = Append(heap, obj)
    /\ formData' = NewRef

\* mutant: the other keys are not copied
SetFormDataOf_NoSpread(name, value) ==
    SetNewFormData(SpreadWith(<<>>, name, value))

\* mutant: the state object is changed in place
SetFormDataOf_InPlace(name, value) ==
    /\ heap' = [heap EXCEPT ![formData] = SpreadWith(@, name, value)]
    /\ UNCHANGED formData

\* setFormData({ ...formData, [name]: value })
SetFormDataOf(name, value) ==
    SetNewFormData(SpreadWith(heap[formData], name, value))

\* the history of the values the keys were given
ChangeHistory(target) ==
    lastValue' = SpreadWith(lastValue, target.name, InputContent(target))

\* README.md:644-653
handleChange_first(target) ==
    /\ mounted = "object"
    /\ Len(heap) < MaxObjects
    /\ LET name == target.name
           value == StrVal(target.value)
       IN  SetFormDataOf(name, value)
    /\ event' = ChangeEvent("handleChange", 644, target)
    /\ effects' = <<"setFormData">>
    /\ ChangeHistory(target)
    /\ UNCHANGED <<nameVars, numberVars, mounted, submittedData, newsLetter,
                   delivered>>

\* mutant: the checked property is never read
ValueOf_NoCheckbox(target) == StrVal(target.value)

\* mutant: a checkbox event flips the stored value instead of reading checked
ValueOf_Toggle(target) ==
    IF target.type = "checkbox"
    THEN BoolVal(~heap[formData][target.name].bool)
    ELSE StrVal(target.value)

\* let value = event.target.value; if (type === "checkbox") value = checked
ValueOf(target) ==
    IF target.type = "checkbox"
    THEN BoolVal(target.checked) ELSE StrVal(target.value)

\* mutant: the key is read from event.target.type
handleChange_KeyIsType(target) ==
    /\ mounted = "final"
    /\ Len(heap) < MaxObjects
    /\ LET name == target.type
           value == ValueOf(target)
       IN  SetFormDataOf(name, value)
    /\ event' = ChangeEvent("handleChange", 683, target)
    /\ effects' = <<"setFormData">>
    /\ ChangeHistory(target)
    /\ UNCHANGED <<nameVars, numberVars, mounted, submittedData, newsLetter,
                   delivered>>

\* README.md:683-696
handleChange(target) ==
    /\ mounted = "final"
    /\ Len(heap) < MaxObjects
    /\ LET name == target.name
           value == ValueOf(target)
       IN  SetFormDataOf(name, value)
    /\ event' = ChangeEvent("handleChange", 683, target)
    /\ effects' = <<"setFormData">>
    /\ ChangeHistory(target)
    /\ UNCHANGED <<nameVars, numberVars, mounted, submittedData, newsLetter,
                   delivered>>

-----------------------------------------------------------------------------
(* Submit handlers *)

\* event.preventDefault() has run before statement k of a handler
PreventedBefore(statements, k) ==
    \E j \in 1..(k - 1) : statements[j] = "preventDefault"

Position(statements, s) ==
    CHOOSE k \in 1..Len(statements) : statements[k] = s

SubmitEvent(line, target, statements) ==
    [handler |-> "handleSubmit", line |-> line, target |-> target,
     defaultPrevented |-> PreventedBefore(statements, Len(statements) + 1)]

\* the sink is called with the object at ref while the form shows state
Deliver(sink, ref, state, statements) ==
    delivered' = Append(delivered,
        [sink |-> sink, ref |-> ref, state |-> state,
         defaultPrevented |->
             PreventedBefore(statements, Position(statements, sink))])

\* { firstName: firstName, lastName: lastName }
NameObject(first, last) ==
    [firstName |-> StrVal(first), lastName |-> StrVal(last)]

\* the statements of README.md:169-175 that act on something outside
handleSubmit_propsStatements ==
    <<"preventDefault", "sendFormDataSomewhere", "setFirstName",
      "setLastName">>

\* README.md:169-175
handleSubmit_props ==
    /\ mounted = "props"
    /\ Len(heap) < MaxObjects
    /\ Len(delivered) < MaxSubmits
    /\ heap' = Append(heap, NameObject(firstName, lastName))
    /\ Deliver("sendFormDataSomewhere", NewRef,
               NameObject(firstName, lastName), handleSubmit_propsStatements)
    /\ firstName' = ""
    /\ lastName' = ""
    /\ effects' = handleSubmit_propsStatements
    /\ event' = SubmitEvent(169, FormTarget, handleSubmit_propsStatements)
    /\ UNCHANGED <<numberVars, mounted, formData, submittedData, newsLetter,
                   lastValue>>

\* the statements of README.md:225-232 that act on something outside
handleSubmit_submissionsStatements ==
    <<"preventDefault", "setSubmittedData", "setFirstName", "setLastName">>

\* mutant: the last name is not reset
handleSubmit_submissions_KeepsLastName ==
    /\ mounted = "submissions"
    /\ Len(heap) < MaxObjects
    /\ Len(delivered) < MaxSubmits
    /\ heap' = Append(heap, NameObject(firstName, lastName))
    /\ submittedData' = Append(submittedData, NewRef)
    /\ Deliver("setSubmittedData", NewRef, NameObject(firstName, lastName),
               handleSubmit_submissionsStatements)
    /\ firstName' = ""
    /\ effects' = handleSubmit_submissionsStatements
    /\ event' =
          SubmitEvent(225, FormTarget, handleSubmit_submissionsStatements)
    /\ UNCHANGED <<lastName, numberVars, mounted, formData, newsLetter,
                   lastValue>>

\* README.md:225-232
handleSubmit_submissions ==
    /\ mounted = "submissions"
    /\ Len(heap) < MaxObjects
    /\ Len(delivered) < MaxSubmits
    /\ heap' = Append(heap, NameObject(firstName, lastName))
    /\ submittedData' = Append(submittedData, NewRef)
    /\ Deliver("setSubmittedData", NewRef, NameObject(firstName, lastName),
               handleSubmit_submissionsStatements)
    /\ firstName' = ""
    /\ lastName' = ""
    /\ effects' = handleSubmit_submissionsStatements
    /\ event' =
          SubmitEvent(225, FormTarget, handleSubmit_submissionsStatements)
    /\ UNCHANGED <<numberVars, mounted, formData, newsLetter, lastValue>>

\* the statements of README.md:319-325 that act on something outside
handleSubmit_uncontrolledStatements ==
    <<"preventDefault", "sendFormDataSomewhere">>

\* README.md:319-325
handleSubmit_uncontrolled(target) ==
    /\ mounted = "uncontrolled"
    /\ Len(heap) < MaxObjects
    /\ Len(delivered) < MaxSubmits
    /\ LET first == target.firstName.value
           last == target.lastName.value
       IN  /\ heap' = Append(heap, NameObject(first, last))
           /\ Deliver("sendFormDataSomewhere", NewRef,
                      NameObject(first, last),
                      handleSubmit_uncontrolledStatements)
    /\ effects' = handleSubmit_uncontrolledStatements
    /\ event' = SubmitEvent(319, target, handleSubmit_uncontrolledStatements)
    /\ UNCHANGED <<nameVars, numberVars, mounted, formData, submittedData,
                   newsLetter, lastValue>>

\* the statements of README.md:340-343 that act on something outside
handleSubmit_objectStatements ==
    <<"preventDefault", "sendFormDataSomewhere">>

\* README.md:340-343
handleSubmit_object ==
    /\ mounted = "object"
    /\ Len(delivered) < MaxSubmits
    /\ Deliver("sendFormDataSomewhere", formData, heap[formData],
               handleSubmit_objectStatements)
    /\ effects' = handleSubmit_objectStatements
    /\ event' = SubmitEvent(340, FormTarget, handleSubmit_objectStatements)
    /\ UNCHANGED <<nameVars, numberVars, mounted, heap, formData,
                   submittedData, newsLetter, lastValue>>

\* mutant: the default is prevented after the data is logged
handleSubmitStatements_LogFirst == <<"console.log", "preventDefault">>

\* the statements of README.md:698-701 that act on something outside
handleSubmitStatements == <<"preventDefault", "console.log">>

\* README.md:698-701
handleSubmit ==
    /\ mounted = "final"
    /\ Len(delivered) < MaxSubmits
    /\ Deliver("console.log", formData, heap[formData],
               handleSubmitStatements)
    /\ effects' = handleSubmitStatements
    /\ event' = SubmitEvent(698, FormTarget, handleSubmitStatements)
    /\ UNCHANGED <<nameVars, numberVars, mounted, heap, formData,
                   submittedData, newsLetter, lastValue>>

-----------------------------------------------------------------------------

\* the state object a version starts with, if it has one
InitialFormData(version) ==
    IF version = "final"
    THEN <<[firstName |-> StrVal("John"), lastName |-> StrVal("Henry"),
            admin |-> BoolVal(FALSE)]>>
    ELSE IF version = "object"
    THEN <<[firstName |-> StrVal(""), lastName |-> StrVal("")]>>
    ELSE <<>>

InitForm ==
    /\ InitNumber
    /\ mounted \in FormVersions
    /\ firstName = (IF mounted \in {"props", "submissions"} THEN "John" ELSE "")
    /\ lastName = (IF mounted \in {"props", "submissions"} THEN "Henry" ELSE "")
    /\ heap = InitialFormData(mounted)
    /\ formData = Len(heap)
    /\ submittedData = <<>>
    /\ newsLetter = BoolVal(FALSE)
    /\ delivered = <<>>
    /\ lastValue = (IF heap = <<>> THEN <<>> ELSE heap[1])
    /\ effects = <<>>
    /\ event = NoEvent

NextForm ==
    \/ \E target \in FirstNameInputs : handleFirstNameChange(target)
    \/ \E target \in LastNameInputs : handleLastNameChange(target)
    \/ \E target \in NewsLetterInputs : handleNewsLetterChange(target)
    \/ \E target \in ObjectInputs : handleChange_first(target)
    \/ \E target \in FinalInputs : handleChange(target)
    \/ handleSubmit_props
    \/ handleSubmit_submissions
    \/ \E target \in UncontrolledForms : handleSubmit_uncontrolled(target)
    \/ handleSubmit_object
    \/ handleSubmit

SpecForm == InitForm /\ [][NextForm]_vars

-----------------------------------------------------------------------------
(* The bounded number field: claims C1 to C5 *)

IsNumberEvent(e) == e.handler = "handleNumberChange"

\* 0 <= parseInt(v) <= 5, in the integers
ParsesInRange(v) ==
    LET p == parseInt(v) IN ~p.isNaN /\ 0 <= p.val /\ p.val <= 5

\* C1: a number-change event is accepted (no message is left) exactly when
\* the parsed text is an integer from 0 to 5; every other text is rejected
\* (a message is left).
C1_AcceptedIffInRange ==
    IsNumberEvent(event) =>
        /\ (isInvalidNumber = Null) <=> ParsesInRange(event.value)
        /\ (isInvalidNumber # Null) <=> ~ParsesInRange(event.value)

\* a signed text was accepted, and the limit 5 itself
C1_Witness ==
    /\ IsNumberEvent(event)
    /\ event.value = <<"+", "5">>
    /\ isInvalidNumber = Null
    /\ number = Num(5)

\* C2: the stored number is always an integer from 0 to 5, and it is 0
\* before the first event.
C2_NumberInRange ==
    /\ ~number.isNaN
    /\ number.val \in 0..5
    /\ (event.handler = "none" => number = Num(0))

\* an out-of-range text came after an accepted 3
C2_Witness ==
    /\ IsNumberEvent(event)
    /\ parseInt(event.value) = Num(59)
    /\ number = Num(3)

\* C3: a rejected number-change event leaves the number as it was, so the
\* number is always the parsed value of the most recent accepted text, or 0
\* when none was accepted.
C3_RejectedKeepsNumber ==
    /\ [][(IsNumberEvent(event') /\ ~ParsesInRange(event'.value))
            => number' = number]_vars
    /\ [](number = Num(lastAccepted))

\* a text that does not parse came while the number was 5
C3_Witness ==
    /\ IsNumberEvent(event)
    /\ parseInt(event.value) = NaN
    /\ number = Num(5)
    /\ lastAccepted = 5

\* C4: an accepted number-change event stores exactly the parsed integer
\* and leaves no message, whatever message was shown before.
C4_AcceptedSetsNumber ==
    (IsNumberEvent(event) /\ ParsesInRange(event.value)) =>
        /\ number = parseInt(event.value)
        /\ isInvalidNumber = Null

\* a text with white space in front was accepted while a message was shown
C4_Witness ==
    /\ IsNumberEvent(event)
    /\ event.value = <<" ", "3">>
    /\ wasInvalid
    /\ number = Num(3)
    /\ isInvalidNumber = Null

\* C5 as claimed: a rejected event records the rejected text itself followed
\* by " is not a valid number!".
C5_MessageShowsRawInput ==
    (IsNumberEvent(event) /\ ~ParsesInRange(event.value)) =>
        isInvalidNumber = Str(event.value \o MessageSuffix)

\* C5 amended: a rejected event records the string form of the parsed number
\* ("NaN" when the text does not parse) followed by " is not a valid
\* number!"; for the text "9" after an accepted "5" that is "9 is not a valid
\* number!" and the number stays 5.
C5_MessageShowsParsedNumber ==
    (IsNumberEvent(event) /\ ~ParsesInRange(event.value)) =>
        /\ ~isInvalidNumber.isNull
        /\ isInvalidNumber.text =
              NumberToString(parseInt(event.value)) \o MessageSuffix
        /\ Len(isInvalidNumber.text) > Len(MessageSuffix)
        /\ (event.value = <<"9">> =>
              isInvalidNumber.text = <<"9">> \o MessageSuffix)

\* "9" was rejected after "5" was accepted
C5_Witness ==
    /\ IsNumberEvent(event)
    /\ event.value = <<"9">>
    /\ number = Num(5)
    /\ isInvalidNumber = Str(<<"9">> \o MessageSuffix)

-----------------------------------------------------------------------------
(* The forms: claims C6 to C10 *)

IsEventOf(e, handler, line) == e.handler = handler /\ e.line = line

Last(s) == s[Len(s)]

\* C6: after any sequence of generic change events, each naming a key of the
\* state object, every key holds the value of its most recent change and a
\* key no event named holds its initial value: no update is lost, no update
\* touches another key, and no value is refused.
C6_LastValuePerKey ==
    mounted \in ObjectState => heap[formData] = lastValue

\* two changes, of different keys, and lastName never named
C6_Witness ==
    /\ mounted = "final"
    /\ heap[formData] =
          [firstName |-> StrVal(""), lastName |-> StrVal("Henry"),
           admin |-> BoolVal(TRUE)]
    /\ Len(heap) = 3

\* C7: a change event of a checkbox stores the event's boolean checked state
\* under the input's name, not its value string; a change event of any other
\* input stores the value string as it is; either way the other fields keep
\* their values.
C7_CheckboxStoresChecked ==
    [][/\ (event'.handler = "handleChange" /\ event'.line = 683) =>
             LET t == event'.target
                 old == heap[formData]
                 new == heap'[formData']
             IN  /\ (t.type = "checkbox") => new[t.name] = BoolVal(t.checked)
                 /\ (t.type # "checkbox") => new[t.name] = StrVal(t.value)
                 /\ \A k \in (DOMAIN old) \ {t.name} :
                        k \in DOMAIN new /\ new[k] = old[k]
       /\ (event'.handler = "handleNewsLetterChange") =>
             /\ newsLetter' = BoolVal(event'.target.checked)
             /\ UNCHANGED nameVars
      ]_vars

\* the checkbox was ticked after the first name was cleared
C7_Witness ==
    /\ mounted = "final"
    /\ event.handler = "handleChange"
    /\ event.target = CheckboxTarget("admin", TRUE)
    /\ heap[formData].admin = BoolVal(TRUE)
    /\ heap[formData].firstName = StrVal("")

\* C8: the object a submit handed to the sink (or appended to submittedData)
\* shows the form state of the instant of the submit, and goes on showing it
\* whatever change events or resets come later.
C8_SnapshotIsStable ==
    \A i \in 1..Len(delivered) : heap[delivered[i].ref] = delivered[i].state

\* the state object was handed to the sink and the form was changed after
C8_Witness ==
    /\ mounted = "final"
    /\ Len(delivered) >= 1
    /\ delivered[1].ref # formData
    /\ heap[formData] # delivered[1].state
    /\ heap[formData].admin = BoolVal(TRUE)

\* C9: a submit that resets hands the sink the first and last name held when
\* the event came, and leaves both of them empty, the submissions stored
\* before it as they were, and every other piece of state unchanged.
C9_SubmitThenReset ==
    [][(/\ event'.handler = "handleSubmit"
        /\ mounted \in {"props", "submissions"}) =>
            /\ Len(delivered') = Len(delivered) + 1
            /\ heap'[Last(delivered').ref] = NameObject(firstName, lastName)
            /\ firstName' = ""
            /\ lastName' = ""
            /\ \A r \in 1..Len(heap) : heap'[r] = heap[r]
            /\ SubSeq(submittedData', 1, Len(submittedData)) = submittedData
            /\ (mounted = "submissions" =>
                  submittedData' =
                      Append(submittedData, Last(delivered').ref))
            /\ (mounted = "props" => UNCHANGED submittedData)
            /\ UNCHANGED <<newsLetter, formData, numberVars, mounted>>
      ]_vars

\* a second submission was stored after the reset of the first
C9_Witness ==
    /\ mounted = "submissions"
    /\ event.handler = "handleSubmit"
    /\ Len(submittedData) = 2
    /\ heap[submittedData[1]] = NameObject("John", "Henry")
    /\ heap[submittedData[2]] = NameObject("Henry", "")
    /\ firstName = ""
    /\ lastName = ""

\* C10: every submit handler calls event.preventDefault() first: the sink is
\* never called, and no state setter is called, before the default is
\* prevented.
C10_PreventDefaultFirst ==
    /\ event.handler = "handleSubmit" =>
          /\ event.defaultPrevented
          /\ effects # <<>>
          /\ \A k \in 1..Len(effects) :
                effects[k] # "preventDefault" => PreventedBefore(effects, k)
    /\ \A i \in 1..Len(delivered) : delivered[i].defaultPrevented

\* a submit that called the sink and then reset the names
C10_Witness ==
    /\ mounted = "props"
    /\ event.handler = "handleSubmit"
    /\ Len(delivered) = 1
    /\ heap[delivered[1].ref] = NameObject("", "Henry")
    /\ effects = <<"preventDefault", "sendFormDataSomewhere", "setFirstName",
                   "setLastName">>

-----------------------------------------------------------------------------
(* Claims C11 to C15 *)

\* the step is a generic change event that repeats the event before it
RepeatsChange(line) ==
    /\ event.handler = "handleChange"
    /\ event.line = line
    /\ event'.handler = "handleChange"
    /\ event'.line = line
    /\ event'.target = event.target

\* C11: the generic update is idempotent: a change event with the name and
\* value of the change event just before it leaves the form state with the
\* content the first of the two gave it.
C11_ChangeIsIdempotent ==
    [][(RepeatsChange(683) \/ RepeatsChange(644)) =>
           /\ formData' \in 1..Len(heap')
           /\ heap'[formData'] = heap[formData]
      ]_vars

\* the checkbox was ticked twice in a row, and the first tick changed admin
C11_Witness ==
    /\ mounted = "final"
    /\ event.handler = "handleChange"
    /\ event.target = CheckboxTarget("admin", TRUE)
    /\ Len(heap) = 3
    /\ formData = 3
    /\ heap[1].admin = BoolVal(FALSE)
    /\ heap[2].admin = BoolVal(TRUE)
    /\ heap[3] = heap[2]

\* C12: with the state lifted to Parent, Form's text inputs and DisplayData
\* always show Parent's current firstName and lastName; each of the two is
\* changed only by its own change handler of Parent, to the text of the
\* event; Form's number handler leaves both alone, and the name handlers
\* leave Form's number and message alone.
C12_NamesOwnedByParent ==
    /\ [](/\ Parent_render.form.first = firstName
          /\ Parent_render.form.last = lastName
          /\ Parent_render.display = <<firstName, lastName>>)
    /\ [][/\ (firstName' # firstName) =>
                (event'.handler = "handleFirstNameChange"
                    /\ firstName' = event'.value)
          /\ (lastName' # lastName) =>
                (event'.handler = "handleLastNameChange"
                    /\ lastName' = event'.value)
          /\ IsNumberEvent(event') => UNCHANGED nameVars
          /\ (event'.handler \in
                 {"handleFirstNameChange", "handleLastNameChange"}) =>
                UNCHANGED <<number, isInvalidNumber>>
         ]_vars

\* both names were changed, a number was accepted and another one rejected
C12_Witness ==
    /\ mounted = "Parent"
    /\ firstName = "Henry"
    /\ lastName = ""
    /\ number = Num(5)
    /\ isInvalidNumber # Null
    /\ Parent_render.form.last = ""
    /\ Parent_render.display = <<"Henry", "">>

\* the text of a number-change event that parseInt turns into NaN
DoesNotParse(v) == parseInt(v) = NaN

UnparsableInputs == {v \in ParentRawInputs : DoesNotParse(v)}

\* C13: a number-change event whose text does not parse as an integer (the
\* empty text of a cleared field among them) is rejected: the number keeps
\* its value, a message that is not empty is recorded, and the handler
\* runs to its end on every such text, in every state.
C13_UnparsableIsRejected ==
    /\ [][(IsNumberEvent(event') /\ DoesNotParse(event'.value)) =>
              /\ number' = number
              /\ ~isInvalidNumber'.isNull
              /\ isInvalidNumber'.text = <<"N", "a", "N">> \o MessageSuffix
         ]_vars
    /\ [](/\ ~number.isNaN
          /\ \A v \in UnparsableInputs : ENABLED handleNumberChange(v))

\* the field was cleared while it showed 3
C13_Witness ==
    /\ IsNumberEvent(event)
    /\ event.value = <<>>
    /\ number = Num(3)
    /\ isInvalidNumber = Str(<<"N", "a", "N">> \o MessageSuffix)

\* C15: the message isInvalidNumber is set exactly when the most recent
\* number-change event was rejected: it is null before the first such event
\* and whenever the most recent one was accepted, whatever name events came
\* since.
C15_MessageIffLastRejected ==
    /\ (isInvalidNumber # Null) <=> (lastOutcome = "Rejected")
    /\ (lastOutcome \in {"none", "Accepted"}) => isInvalidNumber = Null
    /\ (event.handler = "none") => (lastOutcome = "none")

\* a rejection followed an accepted 5, and a name was changed after it
C15_Witness ==
    /\ lastOutcome = "Rejected"
    /\ number = Num(5)
    /\ event.handler = "handleLastNameChange"
    /\ ~isInvalidNumber.isNull
    /\ Len(isInvalidNumber.text) > 0

\* an accepted text cleared the message of a rejection before it
C15_WitnessCleared ==
    /\ lastOutcome = "Accepted"
    /\ wasInvalid
    /\ isInvalidNumber = Null

\* the keys of the state object the mounted version of Form starts with
InitialKeys == DOMAIN InitialFormData(mounted)[1]

\* C14: the key set of the form state never changes: after any change
\* events and submits the state object has exactly the keys it was created
\* with (firstName, lastName and admin in the final Form); none is removed
\* and none is added.
C14_KeySetIsInvariant ==
    mounted \in ObjectState =>
        /\ DOMAIN heap[formData] = InitialKeys
        /\ (mounted = "final" =>
              DOMAIN heap[formData] = {"firstName", "lastName", "admin"})
        /\ \A i \in 1..Len(delivered) :
              DOMAIN heap[delivered[i].ref] = InitialKeys

\* two keys were changed, with a submit between the two changes
C14_Witness ==
    /\ mounted = "final"
    /\ Len(heap) = 3
    /\ formData = 3
    /\ Len(delivered) = 1
    /\ delivered[1].ref = 2
    /\ heap[2].firstName = StrVal("")
    /\ heap[3].admin = BoolVal(TRUE)
    /\ DOMAIN heap[3] = {"firstName", "lastName", "admin"}

====
